---- MODULE Spec2Model ----
(***************************************************************************)
(* State machine of the hex-grid tactics demo: the cell grid, the unit     *)
(* roster, selection and highlights, the turn flag and the deferred        *)
(* AI-turn timer (src/mapState.js), the Unit class (src/src/viewState.js,  *)
(* unit module) and the input layer (src/interactions.js).                 *)
(***************************************************************************)
EXTENDS Integers, Sequences, FiniteSets, TLC

VARIABLES
    cells,          \* mapState.cells: <<row,col>> -> cell record
    units,          \* mapState.units: the roster, an array of unit references
    selectedUnit,   \* mapState.selectedUnit
    currentTurn,    \* mapState.currentTurn
    heap,           \* the Unit objects that exist: unit reference -> fields
    aiTimers,       \* number of setTimeout(runAITurn, 500) timers not yet fired
    tapTimers,      \* pending setTimeout(handleClick, 10) of handleTouchEnd, in order
    query           \* a getCellsInRange call: its arguments and, once made, its result

vars == <<cells, units, selectedUnit, currentTurn, heap, aiTimers, tapTimers, query>>

----------------------------------------------------------------------------
(* Bounds of the model *)

MaxRoster == 2
MaxTimers == 1
MaxTaps == 1
MaxHoles == 1       \* invisible cells of a queried grid
MaxBlocked == 2     \* cells a queried predicate rejects
MaxRange == 3       \* largest range queried
MaxCost == 3        \* largest movement cost passed to Unit.move
MaxAmount == 4      \* largest amount passed to takeDamage and heal

\* A reduced visibility mask (1 = visible), same format as config.gridConfig.
gridConfig == << <<1, 0>>,
                 <<1, 0>>,
                 <<1, 0>> >>

\* The mask the application ships with (config.gridConfig).
defaultGridConfig == << <<1, 1, 1, 1, 1, 1>>,
                        <<1, 0, 1, 1, 1, 1>>,
                        <<1, 1, 1, 0, 1, 1>>,
                        <<1, 1, 1, 1, 1, 1>>,
                        <<1, 1, 1, 1, 1, 1>>,
                        <<1, 1, 1, 0, 1, 1>> >>

Null == "null"
NoCell == <<>>
NotPlaced == <<-1, -1>>

Bool(b) == IF b THEN "true" ELSE "false"

----------------------------------------------------------------------------
(* Unit class *)

Unit(type, owner, health, attack, movement) ==
    [type |-> type, owner |-> owner, health |-> health, maxHealth |-> health,
     attack |-> attack, movement |-> movement, movementRemaining |-> movement,
     hasAttacked |-> FALSE, position |-> NotPlaced]

createUnit(type, owner) ==
    CASE type = "soldier" -> Unit(type, owner, 10, 3, 2)
      [] type = "archer"  -> Unit(type, owner, 7, 4, 2)
      [] type = "knight"  -> Unit(type, owner, 12, 5, 3)
      [] type = "mage"    -> Unit(type, owner, 6, 6, 1)
      [] OTHER            -> Unit(type, owner, 5, 2, 2)

resetTurn(u) == [u EXCEPT !.movementRemaining = u.movement, !.hasAttacked = FALSE]

MathMax(a, b) == IF a >= b THEN a ELSE b
MathMin(a, b) == IF a <= b THEN a ELSE b

\* health may go below zero
takeDamage_unclamped(u, amount) ==
    LET health == u.health - amount
    IN [unit |-> [u EXCEPT !.health = health], ret |-> Bool(health > 0)]

takeDamage(u, amount) ==
    LET health == MathMax(0, u.health - amount)
    IN [unit |-> [u EXCEPT !.health = health], ret |-> Bool(health > 0)]

\* health may exceed maxHealth
heal_uncapped(u, amount) == [u EXCEPT !.health = u.health + amount]

heal(u, amount) == [u EXCEPT !.health = MathMin(u.maxHealth, u.health + amount)]

\* the cost is compared with the full movement allowance
UnitMove_overdraw(u, row, col, cost) ==
    IF cost <= u.movement
    THEN [unit |-> [u EXCEPT !.position = <<row, col>>,
                             !.movementRemaining = @ - cost],
          ret |-> "true"]
    ELSE [unit |-> u, ret |-> "false"]

\* the movement budget is not charged
UnitMove_free(u, row, col, cost) ==
    IF cost <= u.movementRemaining
    THEN [unit |-> [u EXCEPT !.position = <<row, col>>], ret |-> "true"]
    ELSE [unit |-> u, ret |-> "false"]

\* the position is written before the movement budget is checked
UnitMove_early(u, row, col, cost) ==
    IF cost <= u.movementRemaining
    THEN [unit |-> [u EXCEPT !.position = <<row, col>>,
                             !.movementRemaining = @ - cost],
          ret |-> "true"]
    ELSE [unit |-> [u EXCEPT !.position = <<row, col>>], ret |-> "false"]

UnitMove(u, row, col, cost) ==
    IF cost <= u.movementRemaining
    THEN [unit |-> [u EXCEPT !.position = <<row, col>>,
                             !.movementRemaining = @ - cost],
          ret |-> "true"]
    ELSE [unit |-> u, ret |-> "false"]

canAttack(u) == ~u.hasAttacked

\* the attack is not recorded
performAttack_repeat(u) ==
    IF canAttack(u)
    THEN [unit |-> u, ret |-> u.attack]
    ELSE [unit |-> u, ret |-> 0]

performAttack(u) ==
    IF canAttack(u)
    THEN [unit |-> [u EXCEPT !.hasAttacked = TRUE], ret |-> u.attack]
    ELSE [unit |-> u, ret |-> 0]

----------------------------------------------------------------------------
(* Grid / cell store.  S is the record of the mutable program state.        *)

State == [cells |-> cells, units |-> units, selectedUnit |-> selectedUnit,
          currentTurn |-> currentTurn, heap |-> heap, aiTimers |-> aiTimers]

\* every cell is created visible
initializeCellStates_allVisible(mask) ==
    [p \in UNION {{<<r, c>> : c \in 0..(Len(mask[r + 1]) - 1)} : r \in 0..(Len(mask) - 1)} |->
        [isVisible |-> TRUE, isActive |-> FALSE, isHighlighted |-> FALSE, unit |-> Null]]

initializeCellStates(mask) ==
    [p \in UNION {{<<r, c>> : c \in 0..(Len(mask[r + 1]) - 1)} : r \in 0..(Len(mask) - 1)}
        |-> [isVisible |-> mask[p[1] + 1][p[2] + 1] = 1, isActive |-> FALSE,
             isHighlighted |-> FALSE, unit |-> Null]]

NumRows(cs) == Cardinality({p[1] : p \in DOMAIN cs})
RowLength(cs, r) == Cardinality({p \in DOMAIN cs : p[1] = r})

\* visibility is not looked at
cellExists_inBounds(cs, rowIndex, cellIndex) ==
    IF rowIndex >= 0 /\ rowIndex < NumRows(cs)
    THEN cellIndex >= 0 /\ cellIndex < RowLength(cs, rowIndex)
    ELSE FALSE

cellExists(cs, rowIndex, cellIndex) ==
    IF rowIndex >= 0 /\ rowIndex < NumRows(cs)
    THEN IF cellIndex >= 0 /\ cellIndex < RowLength(cs, rowIndex)
         THEN cs[<<rowIndex, cellIndex>>].isVisible
         ELSE FALSE
    ELSE FALSE

getCell(cs, rowIndex, cellIndex) ==
    IF cellExists(cs, rowIndex, cellIndex) THEN <<rowIndex, cellIndex>> ELSE NoCell

\* the cell is switched on, never off
toggleCellState_on(S, rowIndex, cellIndex) ==
    IF /\ rowIndex >= 0 /\ rowIndex < NumRows(S.cells)
       /\ cellIndex >= 0 /\ cellIndex < RowLength(S.cells, rowIndex)
       /\ S.cells[<<rowIndex, cellIndex>>].isVisible
    THEN [st |-> [S EXCEPT !.cells[<<rowIndex, cellIndex>>].isActive = TRUE],
          ret |-> "true"]
    ELSE [st |-> S, ret |-> "false"]

toggleCellState(S, rowIndex, cellIndex) ==
    IF /\ rowIndex >= 0 /\ rowIndex < NumRows(S.cells)
       /\ cellIndex >= 0 /\ cellIndex < RowLength(S.cells, rowIndex)
       /\ S.cells[<<rowIndex, cellIndex>>].isVisible
    THEN LET v == ~S.cells[<<rowIndex, cellIndex>>].isActive
         IN  [st |-> [S EXCEPT !.cells[<<rowIndex, cellIndex>>].isActive = v],
              ret |-> Bool(v)]
    ELSE [st |-> S, ret |-> "false"]

\* nothing is cleared
clearHighlightedCells_none(S) == S

clearHighlightedCells(S) ==
    [S EXCEPT !.cells = [p \in DOMAIN S.cells |->
                            [S.cells[p] EXCEPT !.isHighlighted = FALSE]]]

----------------------------------------------------------------------------
(* Placement manager *)

\* Array.prototype.indexOf: 0-based index of the first occurrence, -1 if absent
indexOf(seq, x) ==
    IF \E i \in 1..Len(seq) : seq[i] = x
    THEN (CHOOSE i \in 1..Len(seq) : seq[i] = x /\ \A j \in 1..(i - 1) : seq[j] # x) - 1
    ELSE -1

\* Array.prototype.splice(index, 1)
splice1(seq, index) ==
    [i \in 1..(Len(seq) - 1) |-> IF i <= index THEN seq[i] ELSE seq[i + 1]]

includes(seq, x) == \E i \in 1..Len(seq) : seq[i] = x

\* the reference is left in place
clearUnitRef_keep(cs, cell) == cs

\* if (cell) { cell.unit = null; }
clearUnitRef(cs, cell) ==
    IF cell # NoCell THEN [cs EXCEPT ![cell].unit = Null] ELSE cs

addUnit(S, unit) ==
    IF unit # Null
    THEN [st |-> [S EXCEPT !.units = Append(@, unit)], ret |-> "true"]
    ELSE [st |-> S, ret |-> "false"]

removeUnit(S, unit) ==
    LET index == indexOf(S.units, unit) IN
    IF index # -1
    THEN LET pos  == S.heap[unit].position
             cell == IF pos[1] >= 0 /\ pos[2] >= 0
                     THEN getCell(S.cells, pos[1], pos[2]) ELSE NoCell
             cs1  == clearUnitRef(S.cells, cell)
         IN  [st |-> [S EXCEPT !.units = splice1(@, index),
                               !.cells = cs1,
                               !.selectedUnit = IF @ = unit THEN Null ELSE @],
              ret |-> "true"]
    ELSE [st |-> S, ret |-> "false"]

\* the target's occupancy is not checked
placeUnit_overwrite(S, unit, rowIndex, cellIndex) ==
    LET cell == getCell(S.cells, rowIndex, cellIndex) IN
    IF cell # NoCell /\ S.cells[cell].isVisible
    THEN LET pos     == S.heap[unit].position
             oldCell == IF pos[1] >= 0 /\ pos[2] >= 0
                        THEN getCell(S.cells, pos[1], pos[2]) ELSE NoCell
             cs1     == clearUnitRef(S.cells, oldCell)
             roster  == IF ~includes(S.units, unit)
                        THEN Append(S.units, unit) ELSE S.units
         IN  [st |-> [S EXCEPT !.units = roster,
                               !.heap[unit].position = <<rowIndex, cellIndex>>,
                               !.cells = [cs1 EXCEPT ![cell].unit = unit]],
              ret |-> "true"]
    ELSE [st |-> S, ret |-> "false"]

placeUnit(S, unit, rowIndex, cellIndex) ==
    LET cell == getCell(S.cells, rowIndex, cellIndex) IN
    IF cell # NoCell /\ S.cells[cell].isVisible /\ S.cells[cell].unit = Null
    THEN LET pos     == S.heap[unit].position
             oldCell == IF pos[1] >= 0 /\ pos[2] >= 0
                        THEN getCell(S.cells, pos[1], pos[2]) ELSE NoCell
             cs1     == clearUnitRef(S.cells, oldCell)
             roster  == IF ~includes(S.units, unit)
                        THEN Append(S.units, unit) ELSE S.units
         IN  [st |-> [S EXCEPT !.units = roster,
                               !.heap[unit].position = <<rowIndex, cellIndex>>,
                               !.cells = [cs1 EXCEPT ![cell].unit = unit]],
              ret |-> "true"]
    ELSE [st |-> S, ret |-> "false"]

----------------------------------------------------------------------------
(* Range query *)

\* the even-row table is used for every row
neighbors_evenOnly(r, c) ==
    << <<r-1, c-1>>, <<r-1, c>>, <<r, c+1>>, <<r+1, c>>, <<r+1, c-1>>, <<r, c-1>> >>

\* the six neighbours of (r, c), in the order the code enqueues them
neighbors(r, c) ==
    IF r % 2 = 0
    THEN << <<r-1, c-1>>, <<r-1, c>>, <<r, c+1>>, <<r+1, c>>, <<r+1, c-1>>, <<r, c-1>> >>
    ELSE << <<r-1, c>>, <<r-1, c+1>>, <<r, c+1>>, <<r+1, c+1>>, <<r+1, c>>, <<r, c-1>> >>

RECURSIVE rangeLoop_throughRejected(_, _, _, _, _, _)
\* a cell the predicate rejects is left out of the result but still spread from
rangeLoop_throughRejected(cs, range, includePredicate, queue, visited, result) ==
    IF Len(queue) = 0 THEN result
    ELSE LET r    == Head(queue)[1]
             c    == Head(queue)[2]
             dist == Head(queue)[3]
             rest == Tail(queue)
             cell == getCell(cs, r, c)
             next == rest \o [i \in 1..6 |->
                        <<neighbors(r, c)[i][1], neighbors(r, c)[i][2], dist + 1>>]
         IN  IF cell = NoCell \/ ~cs[cell].isVisible \/ cell \in visited
             THEN rangeLoop_throughRejected(cs, range, includePredicate, rest, visited, result)
             ELSE rangeLoop_throughRejected(cs, range, includePredicate,
                      IF dist >= range THEN rest ELSE next,
                      visited \cup {cell},
                      IF includePredicate[cell] THEN Append(result, cell) ELSE result)

RECURSIVE rangeLoop_offByOne(_, _, _, _, _, _)
\* spreading stops one step too late
rangeLoop_offByOne(cs, range, includePredicate, queue, visited, result) ==
    IF Len(queue) = 0 THEN result
    ELSE LET r    == Head(queue)[1]
             c    == Head(queue)[2]
             dist == Head(queue)[3]
             rest == Tail(queue)
             cell == getCell(cs, r, c)
         IN  IF cell = NoCell \/ ~cs[cell].isVisible \/ ~includePredicate[cell]
                \/ cell \in visited
             THEN rangeLoop_offByOne(cs, range, includePredicate, rest, visited, result)
             ELSE rangeLoop_offByOne(cs, range, includePredicate,
                      IF dist > range THEN rest
                      ELSE rest \o [i \in 1..6 |->
                              <<neighbors(r, c)[i][1], neighbors(r, c)[i][2], dist + 1>>],
                      visited \cup {cell}, Append(result, cell))

RECURSIVE rangeLoop_revisit(_, _, _, _, _, _)
\* no set of visited cells is kept
rangeLoop_revisit(cs, range, includePredicate, queue, visited, result) ==
    IF Len(queue) = 0 THEN result
    ELSE LET r    == Head(queue)[1]
             c    == Head(queue)[2]
             dist == Head(queue)[3]
             rest == Tail(queue)
             cell == getCell(cs, r, c)
         IN  IF cell = NoCell \/ ~cs[cell].isVisible \/ ~includePredicate[cell]
             THEN rangeLoop_revisit(cs, range, includePredicate, rest, visited, result)
             ELSE rangeLoop_revisit(cs, range, includePredicate,
                      IF dist >= range THEN rest
                      ELSE rest \o [i \in 1..6 |->
                              <<neighbors(r, c)[i][1], neighbors(r, c)[i][2], dist + 1>>],
                      visited, Append(result, cell))

RECURSIVE rangeLoop_stack(_, _, _, _, _, _)
\* the newest queue entry is taken first
rangeLoop_stack(cs, range, includePredicate, queue, visited, result) ==
    IF Len(queue) = 0 THEN result
    ELSE LET r    == queue[Len(queue)][1]
             c    == queue[Len(queue)][2]
             dist == queue[Len(queue)][3]
             rest == SubSeq(queue, 1, Len(queue) - 1)
             cell == getCell(cs, r, c)
         IN  IF cell = NoCell \/ ~cs[cell].isVisible \/ ~includePredicate[cell]
                \/ cell \in visited
             THEN rangeLoop_stack(cs, range, includePredicate, rest, visited, result)
             ELSE rangeLoop_stack(cs, range, includePredicate,
                      IF dist >= range THEN rest
                      ELSE rest \o [i \in 1..6 |->
                              <<neighbors(r, c)[i][1], neighbors(r, c)[i][2], dist + 1>>],
                      visited \cup {cell}, Append(result, cell))

RECURSIVE rangeLoop_throughInvisible(_, _, _, _, _, _)
\* an invisible cell is left out of the result but still spread from
rangeLoop_throughInvisible(cs, range, includePredicate, queue, visited, result) ==
    IF Len(queue) = 0 THEN result
    ELSE LET r    == Head(queue)[1]
             c    == Head(queue)[2]
             dist == Head(queue)[3]
             rest == Tail(queue)
             cell == <<r, c>>
             next == rest \o [i \in 1..6 |->
                        <<neighbors(r, c)[i][1], neighbors(r, c)[i][2], dist + 1>>]
         IN  IF cell \notin DOMAIN cs \/ cell \in visited
             THEN rangeLoop_throughInvisible(cs, range, includePredicate, rest, visited, result)
             ELSE IF cs[cell].isVisible /\ ~includePredicate[cell]
             THEN rangeLoop_throughInvisible(cs, range, includePredicate, rest, visited, result)
             ELSE rangeLoop_throughInvisible(cs, range, includePredicate,
                      IF dist >= range THEN rest ELSE next,
                      visited \cup {cell},
                      IF cs[cell].isVisible THEN Append(result, cell) ELSE result)

RECURSIVE rangeLoop(_, _, _, _, _, _)
\* the while loop of getCellsInRange; queue entries are <<row, col, distance>>,
\* includePredicate is given as a function cell -> BOOLEAN
rangeLoop(cs, range, includePredicate, queue, visited, result) ==
    IF Len(queue) = 0 THEN result
    ELSE LET r    == Head(queue)[1]
             c    == Head(queue)[2]
             dist == Head(queue)[3]
             rest == Tail(queue)
             cell == getCell(cs, r, c)
         IN  IF cell = NoCell \/ ~cs[cell].isVisible \/ ~includePredicate[cell]
             THEN rangeLoop(cs, range, includePredicate, rest, visited, result)
             ELSE IF cell \in visited
             THEN rangeLoop(cs, range, includePredicate, rest, visited, result)
             ELSE IF dist >= range
             THEN rangeLoop(cs, range, includePredicate, rest,
                            visited \cup {cell}, Append(result, cell))
             ELSE rangeLoop(cs, range, includePredicate,
                            rest \o [i \in 1..6 |->
                                       <<neighbors(r, c)[i][1], neighbors(r, c)[i][2], dist + 1>>],
                            visited \cup {cell}, Append(result, cell))

\* a dequeued cell is not looked up in the visited set
rangeStep_noVisited(cs, range, includePredicate, L) ==
    LET r    == Head(L.queue)[1]
        c    == Head(L.queue)[2]
        dist == Head(L.queue)[3]
        rest == Tail(L.queue)
        cell == getCell(cs, r, c)
    IN  IF cell = NoCell \/ ~cs[cell].isVisible \/ ~includePredicate[cell]
        THEN [L EXCEPT !.queue = rest]
        ELSE IF dist >= range
        THEN [queue |-> rest, visited |-> L.visited \cup {cell},
              result |-> Append(L.result, cell)]
        ELSE [queue |-> rest \o [i \in 1..6 |->
                          <<neighbors(r, c)[i][1], neighbors(r, c)[i][2], dist + 1>>],
              visited |-> L.visited \cup {cell},
              result |-> Append(L.result, cell)]

\* one iteration of the while loop of getCellsInRange on the loop's locals
\* L = [queue, visited, result]; the queue is not empty
rangeStep(cs, range, includePredicate, L) ==
    LET r    == Head(L.queue)[1]
        c    == Head(L.queue)[2]
        dist == Head(L.queue)[3]
        rest == Tail(L.queue)
        cell == getCell(cs, r, c)
    IN  IF cell = NoCell \/ ~cs[cell].isVisible \/ ~includePredicate[cell]
        THEN [L EXCEPT !.queue = rest]
        ELSE IF cell \in L.visited
        THEN [L EXCEPT !.queue = rest]
        ELSE IF dist >= range
        THEN [queue |-> rest, visited |-> L.visited \cup {cell},
              result |-> Append(L.result, cell)]
        ELSE [queue |-> rest \o [i \in 1..6 |->
                          <<neighbors(r, c)[i][1], neighbors(r, c)[i][2], dist + 1>>],
              visited |-> L.visited \cup {cell},
              result |-> Append(L.result, cell)]

\* the arguments are not checked before the loop
getCellsInRange_noGuard(cs, row, col, range, includePredicate) ==
    rangeLoop(cs, range, includePredicate, << <<row, col, 0>> >>, {}, <<>>)

getCellsInRange(cs, row, col, range, includePredicate) ==
    IF range < 0 \/ ~cellExists(cs, row, col)
    THEN <<>>
    ELSE rangeLoop(cs, range, includePredicate, << <<row, col, 0>> >>, {}, <<>>)

----------------------------------------------------------------------------
(* Turn controller / selection *)

\* the range is taken from movement, not from what is left of it
highlightMovementRange_byMovement(S, unit) ==
    IF unit = Null THEN S
    ELSE IF S.heap[unit].movementRemaining <= 0 THEN S
    ELSE LET pos   == S.heap[unit].position
             found == getCellsInRange(S.cells, pos[1], pos[2],
                          S.heap[unit].movement,
                          [p \in DOMAIN S.cells |->
                              S.cells[p].unit = unit \/ S.cells[p].unit = Null])
         IN  [S EXCEPT !.cells = [p \in DOMAIN S.cells |->
                 IF \E i \in 1..Len(found) : found[i] = p
                 THEN [S.cells[p] EXCEPT !.isHighlighted = TRUE]
                 ELSE S.cells[p]]]

highlightMovementRange(S, unit) ==
    IF unit = Null THEN S
    ELSE IF S.heap[unit].movementRemaining <= 0 THEN S
    ELSE LET pos   == S.heap[unit].position
             found == getCellsInRange(S.cells, pos[1], pos[2],
                          S.heap[unit].movementRemaining,
                          [p \in DOMAIN S.cells |->
                              S.cells[p].unit = unit \/ S.cells[p].unit = Null])
         IN  [S EXCEPT !.cells = [p \in DOMAIN S.cells |->
                 IF \E i \in 1..Len(found) : found[i] = p
                 THEN [S.cells[p] EXCEPT !.isHighlighted = TRUE]
                 ELSE S.cells[p]]]

\* the highlights of the previous selection are not cleared
selectUnit_keepsHighlights(S, unit) ==
    highlightMovementRange([S EXCEPT !.selectedUnit = unit], unit)

selectUnit(S, unit) ==
    highlightMovementRange(clearHighlightedCells([S EXCEPT !.selectedUnit = unit]), unit)

\* the target's occupancy is not checked
moveUnit_ontoOccupied(S, unit, rowIndex, cellIndex) ==
    IF unit = Null THEN [st |-> S, ret |-> "false"]
    ELSE LET targetCell == getCell(S.cells, rowIndex, cellIndex) IN
    IF targetCell = NoCell THEN [st |-> S, ret |-> "false"]
    ELSE LET pos     == S.heap[unit].position
             oldCell == getCell(S.cells, pos[1], pos[2])
             moved   == UnitMove(S.heap[unit], rowIndex, cellIndex, 1)
             S0      == [S EXCEPT !.heap[unit] = moved.unit]
         IN  IF moved.ret = "true"
             THEN LET cs1 == clearUnitRef(S0.cells, oldCell)
                      S1  == clearHighlightedCells(
                                 [S0 EXCEPT !.cells = [cs1 EXCEPT ![targetCell].unit = unit]])
                  IN  [st |-> IF S1.heap[unit].movementRemaining > 0
                              THEN highlightMovementRange(S1, unit) ELSE S1,
                       ret |-> "true"]
             ELSE [st |-> S0, ret |-> "false"]

moveUnit(S, unit, rowIndex, cellIndex) ==
    IF unit = Null THEN [st |-> S, ret |-> "false"]
    ELSE LET targetCell == getCell(S.cells, rowIndex, cellIndex) IN
    IF targetCell = NoCell THEN [st |-> S, ret |-> "false"]
    ELSE IF ~S.cells[targetCell].isVisible \/ S.cells[targetCell].unit # Null
    THEN [st |-> S, ret |-> "false"]
    ELSE LET cost    == 1
             pos     == S.heap[unit].position
             oldCell == getCell(S.cells, pos[1], pos[2])
             moved   == UnitMove(S.heap[unit], rowIndex, cellIndex, cost)
             \* unit.move works on the unit object in place
             S0      == [S EXCEPT !.heap[unit] = moved.unit]
         IN  IF moved.ret = "true"
             THEN LET cs1 == clearUnitRef(S0.cells, oldCell)
                      S1  == clearHighlightedCells(
                                 [S0 EXCEPT !.cells = [cs1 EXCEPT ![targetCell].unit = unit]])
                  IN  [st |-> IF S1.heap[unit].movementRemaining > 0
                              THEN highlightMovementRange(S1, unit) ELSE S1,
                       ret |-> "true"]
             ELSE [st |-> S0, ret |-> "false"]

\* every roster unit not owned by the side whose turn ends is reset
endTurn_resetsOthers(S) ==
    LET S1   == clearHighlightedCells([S EXCEPT !.selectedUnit = Null])
        turn == IF S1.currentTurn = "player" THEN "ai" ELSE "player"
        hp   == [u \in DOMAIN S1.heap |->
                    IF includes(S1.units, u) /\ S1.heap[u].owner # S1.currentTurn
                    THEN resetTurn(S1.heap[u]) ELSE S1.heap[u]]
    IN  [S1 EXCEPT !.currentTurn = turn,
                   !.heap = hp,
                   !.aiTimers = IF turn = "ai" THEN @ + 1 ELSE @]

\* the side whose turn ends is reset, not the one whose turn begins
endTurn_resetsEndingSide(S) ==
    LET S1   == clearHighlightedCells([S EXCEPT !.selectedUnit = Null])
        turn == IF S1.currentTurn = "player" THEN "ai" ELSE "player"
        hp   == [u \in DOMAIN S1.heap |->
                    IF includes(S1.units, u) /\ S1.heap[u].owner = S1.currentTurn
                    THEN resetTurn(S1.heap[u]) ELSE S1.heap[u]]
    IN  [S1 EXCEPT !.currentTurn = turn,
                   !.heap = hp,
                   !.aiTimers = IF turn = "ai" THEN @ + 1 ELSE @]

\* selection and highlights are left as they are
endTurn_keepsSelection(S) ==
    LET turn == IF S.currentTurn = "player" THEN "ai" ELSE "player"
        hp   == [u \in DOMAIN S.heap |->
                    IF includes(S.units, u) /\ S.heap[u].owner = turn
                    THEN resetTurn(S.heap[u]) ELSE S.heap[u]]
    IN  [S EXCEPT !.currentTurn = turn,
                  !.heap = hp,
                  !.aiTimers = IF turn = "ai" THEN @ + 1 ELSE @]

\* the AI turn is run inside the call instead of being scheduled
endTurn_sync(S) ==
    LET S1   == clearHighlightedCells([S EXCEPT !.selectedUnit = Null])
        turn == IF S1.currentTurn = "player" THEN "ai" ELSE "player"
        hp   == [u \in DOMAIN S1.heap |->
                    IF includes(S1.units, u) /\ S1.heap[u].owner = turn
                    THEN resetTurn(S1.heap[u]) ELSE S1.heap[u]]
        hp2  == [u \in DOMAIN S1.heap |->
                    IF includes(S1.units, u) /\ hp[u].owner = "player"
                    THEN resetTurn(hp[u]) ELSE hp[u]]
    IN  IF turn = "ai"
        THEN [S1 EXCEPT !.currentTurn = "player", !.heap = hp2]
        ELSE [S1 EXCEPT !.currentTurn = turn, !.heap = hp]

endTurn(S) ==
    LET S1   == clearHighlightedCells([S EXCEPT !.selectedUnit = Null])
        turn == IF S1.currentTurn = "player" THEN "ai" ELSE "player"
        hp   == [u \in DOMAIN S1.heap |->
                    IF includes(S1.units, u) /\ S1.heap[u].owner = turn
                    THEN resetTurn(S1.heap[u]) ELSE S1.heap[u]]
    IN  [S1 EXCEPT !.currentTurn = turn,
                   !.heap = hp,
                   !.aiTimers = IF turn = "ai" THEN @ + 1 ELSE @]

\* the callback returns without ending the AI's turn
runAITurn_idle(S) == [S EXCEPT !.aiTimers = @ - 1]

\* the timer callback; the fired timer is taken off the pending ones
runAITurn(S) == endTurn([S EXCEPT !.aiTimers = @ - 1])

----------------------------------------------------------------------------
(* Input layer (src/interactions.js) and game setup                         *)

\* the hit-test loop of handleClick: the visible cell under the pointer, if any;
\* the pointer position is given as the matrix coordinate it falls on
hitTest(cs, point) ==
    IF point \in DOMAIN cs /\ cs[point].isVisible THEN point ELSE NoCell

\* with nothing selected, a click on any unit selects it
handleCellInteraction_anyOwner(S, cell) ==
    LET clicked == S.cells[cell].unit IN
    IF S.selectedUnit # Null
    THEN IF clicked = S.selectedUnit
         THEN selectUnit(S, Null)
         ELSE IF clicked # Null /\ S.heap[clicked].owner = "player"
         THEN selectUnit(S, clicked)
         ELSE IF S.cells[cell].isHighlighted
         THEN moveUnit(S, S.selectedUnit, cell[1], cell[2]).st
         ELSE selectUnit(S, Null)
    ELSE IF clicked # Null
         THEN selectUnit(S, clicked)
         ELSE toggleCellState(S, cell[1], cell[2]).st

handleCellInteraction(S, cell) ==
    LET clicked == S.cells[cell].unit IN
    IF S.selectedUnit # Null
    THEN IF clicked = S.selectedUnit
         THEN selectUnit(S, Null)
         ELSE IF clicked # Null /\ S.heap[clicked].owner = "player"
         THEN selectUnit(S, clicked)
         ELSE IF S.cells[cell].isHighlighted
         THEN moveUnit(S, S.selectedUnit, cell[1], cell[2]).st
         ELSE selectUnit(S, Null)
    ELSE IF clicked # Null /\ S.heap[clicked].owner = S.currentTurn
         THEN selectUnit(S, clicked)
         ELSE toggleCellState(S, cell[1], cell[2]).st

\* clicks are processed whoever's turn it is
handleClick_anyTurn(S, dragging, beyondThreshold, point) ==
    IF dragging THEN S
    ELSE IF beyondThreshold THEN S
    ELSE IF hitTest(S.cells, point) = NoCell THEN S
    ELSE handleCellInteraction(S, hitTest(S.cells, point))

\* dragging: appState.view.isDragging || hasMoved; beyondThreshold: the pointer
\* is more than DRAG_THRESHOLD away from where the press started
handleClick(S, dragging, beyondThreshold, point) ==
    IF dragging THEN S
    ELSE IF S.currentTurn = "ai" THEN S
    ELSE IF beyondThreshold THEN S
    ELSE IF hitTest(S.cells, point) = NoCell THEN S
    ELSE handleCellInteraction(S, hitTest(S.cells, point))

\* the click handler of the End Turn button
endTurnButton(S) == endTurn(S)

\* player units at the bottom of the grid, AI units at the top
initializeUnits(S) ==
    placeUnit(placeUnit(S, "u1", 2, 0).st, "u2", 0, 0).st

----------------------------------------------------------------------------
(* The engine driven through its exported API (src/state.js re-exports)     *)

\* the next state of the engine is S1
Apply(S1) ==
    /\ cells' = S1.cells
    /\ units' = S1.units
    /\ selectedUnit' = S1.selectedUnit
    /\ currentTurn' = S1.currentTurn
    /\ heap' = S1.heap
    /\ aiTimers' = S1.aiTimers

\* coordinates callers pass: every visible cell, an invisible one and one
\* outside the matrix
CoordArgs == {p \in DOMAIN cells : cells[p].isVisible} \cup {<<0, 1>>, <<-1, 0>>}
\* a visible cell, an invisible one and a coordinate outside the matrix
ToggleArgs == {<<0, 0>>, <<0, 1>>, <<-1, 0>>}
UnitArgs == DOMAIN heap \cup {Null}

\* no range query is being followed
NoQuery == [row |-> -1, col |-> -1, range |-> -1, includePredicate |-> <<>>,
            done |-> FALSE, result |-> <<>>]

\* the module state before any unit exists on the grid
Loaded(unitObjects) ==
    [cells |-> initializeCellStates(gridConfig), units |-> <<>>,
     selectedUnit |-> Null, currentTurn |-> "player", heap |-> unitObjects,
     aiTimers |-> 0]

Start(S) ==
    /\ cells = S.cells
    /\ units = S.units
    /\ selectedUnit = S.selectedUnit
    /\ currentTurn = S.currentTurn
    /\ heap = S.heap
    /\ aiTimers = S.aiTimers
    /\ tapTimers = <<>>
    /\ query = NoQuery

TwoUnits == [u \in {"u1", "u2"} |->
               IF u = "u1" THEN createUnit("soldier", "player")
                           ELSE createUnit("mage", "ai")]

ThreeUnits == [u \in {"u1", "u2", "u3"} |->
                 CASE u = "u1" -> createUnit("soldier", "player")
                   [] u = "u2" -> createUnit("mage", "ai")
                   [] u = "u3" -> createUnit("archer", "neutral")]

\* cells initialized, units created, nothing placed
Init == Start(Loaded(TwoUnits))

\* the state the page starts in: initializeCellStates(); initializeUnits()
InitGame == Start(initializeUnits(Loaded(TwoUnits)))

\* the game start with a neutral unit added to the roster
InitTurn == Start(addUnit(initializeUnits(Loaded(ThreeUnits)), "u3").st)

AddUnit(u) ==
    /\ Len(units) < MaxRoster
    /\ Apply(addUnit(State, u).st)
    /\ UNCHANGED <<tapTimers, query>>

RemoveUnit(u) ==
    /\ Apply(removeUnit(State, u).st)
    /\ UNCHANGED <<tapTimers, query>>

PlaceUnit(u, p) ==
    /\ Len(units) < MaxRoster \/ includes(units, u)
    /\ Apply(placeUnit(State, u, p[1], p[2]).st)
    /\ UNCHANGED <<tapTimers, query>>

SelectUnit(u) ==
    /\ Apply(selectUnit(State, u))
    /\ UNCHANGED <<tapTimers, query>>

MoveUnit(u, p) ==
    /\ Apply(moveUnit(State, u, p[1], p[2]).st)
    /\ UNCHANGED <<tapTimers, query>>

EndTurn ==
    /\ currentTurn = "player" => aiTimers < MaxTimers
    /\ Apply(endTurn(State))
    /\ UNCHANGED <<tapTimers, query>>

\* a pending setTimeout(runAITurn, 500) fires
RunAITurn ==
    /\ aiTimers > 0
    /\ Apply(runAITurn(State))
    /\ UNCHANGED <<tapTimers, query>>

ToggleCellState(p) ==
    /\ Apply(toggleCellState(State, p[1], p[2]).st)
    /\ UNCHANGED <<tapTimers, query>>

ClearHighlightedCells ==
    /\ Apply(clearHighlightedCells(State))
    /\ UNCHANGED <<tapTimers, query>>

PerformAttack(u) ==
    /\ Apply([State EXCEPT !.heap[u] = performAttack(heap[u]).unit])
    /\ UNCHANGED <<tapTimers, query>>

Next ==
    \/ \E u \in UnitArgs : AddUnit(u)
    \/ \E u \in UnitArgs : RemoveUnit(u)
    \/ \E u \in DOMAIN heap : \E p \in CoordArgs : PlaceUnit(u, p)
    \/ \E u \in UnitArgs : SelectUnit(u)
    \/ \E u \in UnitArgs : \E p \in CoordArgs : MoveUnit(u, p)
    \/ EndTurn
    \/ RunAITurn
    \/ \E p \in ToggleArgs : ToggleCellState(p)
    \/ ClearHighlightedCells

Spec == Init /\ [][Next]_vars

(* Selection, highlights and movement: the engine without addUnit and the   *)
(* legacy cell toggle                                                       *)

NextSelect ==
    \/ \E u \in DOMAIN heap : \E p \in CoordArgs : PlaceUnit(u, p)
    \/ \E u \in UnitArgs : RemoveUnit(u)
    \/ \E u \in UnitArgs : SelectUnit(u)
    \/ \E u \in UnitArgs : \E p \in CoordArgs : MoveUnit(u, p)
    \/ EndTurn
    \/ RunAITurn
    \/ ClearHighlightedCells

SelectSpec == Init /\ [][NextSelect]_vars

(* The roster and the placement operations alone *)

NextPlacement ==
    \/ \E u \in UnitArgs : AddUnit(u)
    \/ \E u \in UnitArgs : RemoveUnit(u)
    \/ \E u \in DOMAIN heap : \E p \in CoordArgs : PlaceUnit(u, p)
    \/ \E u \in DOMAIN heap : \E p \in CoordArgs : MoveUnit(u, p)

PlacementSpec == Init /\ [][NextPlacement]_vars

(* The same with the legacy cell toggle *)

NextCell ==
    \/ NextSelect
    \/ \E p \in ToggleArgs : ToggleCellState(p)

CellSpec == Init /\ [][NextCell]_vars

(* The turn cycle of a running game: moves, attacks, turn ends *)

NextTurn ==
    \/ \E u \in DOMAIN heap : \E p \in CoordArgs : MoveUnit(u, p)
    \/ \E u \in DOMAIN heap : PerformAttack(u)
    \/ EndTurn
    \/ RunAITurn

TurnSpec == InitTurn /\ [][NextTurn]_vars

(* The game driven by pointer input, the End Turn button and the timers *)

HandleClick(dragging, beyondThreshold, point) ==
    /\ Apply(handleClick(State, dragging, beyondThreshold, point))
    /\ UNCHANGED <<tapTimers, query>>

EndTurnButton ==
    /\ currentTurn = "player" => aiTimers < MaxTimers
    /\ Apply(endTurnButton(State))
    /\ UNCHANGED <<tapTimers, query>>

\* handleTouchEnd with no touch left and hasMoved false: the tap is handled
\* as a click 10 ms later
HandleTouchEnd(point) ==
    /\ Len(tapTimers) < MaxTaps
    /\ tapTimers' = Append(tapTimers, point)
    /\ UNCHANGED <<cells, units, selectedUnit, currentTurn, heap, aiTimers, query>>

\* the oldest pending setTimeout(handleClick, 10) fires
TapTimerFires(dragging, beyondThreshold) ==
    /\ Len(tapTimers) > 0
    /\ Apply(handleClick(State, dragging, beyondThreshold, Head(tapTimers)))
    /\ tapTimers' = Tail(tapTimers)
    /\ UNCHANGED query

NextInput ==
    \/ \E d, b \in BOOLEAN : \E p \in CoordArgs : HandleClick(d, b, p)
    \/ EndTurnButton
    \/ \E p \in CoordArgs : HandleTouchEnd(p)
    \/ \E d, b \in BOOLEAN : TapTimerFires(d, b)
    \/ RunAITurn

InputSpec == InitGame /\ [][NextInput]_vars

(* The same input with the second unit owned by either side or by nobody *)

UnitOwner == {"player", "ai", "neutral"}

InitOwners ==
    \E owner \in UnitOwner :
        Start(initializeUnits(Loaded([u \in {"u1", "u2"} |->
            IF u = "u1" THEN createUnit("soldier", "player")
                        ELSE createUnit("mage", owner)])))

OwnerSpec == InitOwners /\ [][NextInput]_vars

\* the browser runs every timer that was set
FairSpec == InputSpec /\ WF_vars(RunAITurn)

(* One unit walking on the shipped 6x6 mask *)

OneUnit == [u \in {"u1"} |-> createUnit("soldier", "player")]

\* the shipped grid with a soldier (movement 2) placed at (5,0)
InitDefault ==
    Start(placeUnit([Loaded(OneUnit) EXCEPT
                        !.cells = initializeCellStates(defaultGridConfig)],
                    "u1", 5, 0).st)

NextDefault ==
    \/ \E u \in UnitArgs : SelectUnit(u)
    \/ \E u \in DOMAIN heap : \E p \in CoordArgs : MoveUnit(u, p)
    \/ EndTurn
    \/ RunAITurn

DefaultSpec == InitDefault /\ [][NextDefault]_vars

(* getCellsInRange called on its own: any grid, origin, range and predicate *)

\* coordinates of the queried grids, three rows of three cells
GridCoords == {<<r, c>> : r \in 0..2, c \in 0..2}

\* the visibility mask (format of config.gridConfig) whose invisible cells are H
MaskOf(H) == [r \in 1..3 |-> [c \in 1..3 |-> IF <<r - 1, c - 1>> \in H THEN 0 ELSE 1]]

Masks == {MaskOf(H) : H \in {X \in SUBSET GridCoords : Cardinality(X) <= MaxHoles}}

\* predicates on cells, each given by the cells it rejects
Predicates ==
    {[p \in GridCoords |-> p \notin B] :
        B \in {X \in SUBSET GridCoords : Cardinality(X) <= MaxBlocked}}

\* origins: every cell of the matrix and three coordinates outside it
Origins == GridCoords \cup {<<-1, 0>>, <<0, 3>>, <<3, 1>>}

InitRange ==
    /\ cells \in {initializeCellStates(mask) : mask \in Masks}
    /\ units = <<>>
    /\ selectedUnit = Null
    /\ currentTurn = "player"
    /\ heap = TwoUnits
    /\ aiTimers = 0
    /\ tapTimers = <<>>
    /\ query \in {[row |-> o[1], col |-> o[2], range |-> n, includePredicate |-> f,
                    done |-> FALSE, result |-> <<>>] :
                      o \in Origins, n \in -1..MaxRange, f \in Predicates}

\* the call is made and its result kept
GetCellsInRange ==
    /\ ~query.done
    /\ query' = [query EXCEPT
                    !.done = TRUE,
                    !.result = getCellsInRange(cells, query.row, query.col,
                                               query.range, query.includePredicate)]
    /\ UNCHANGED <<cells, units, selectedUnit, currentTurn, heap, aiTimers, tapTimers>>

NextRange == GetCellsInRange

\* the obstacles of the calls compared across neighbour orders: at most one
\* cell, made invisible (hole TRUE) or rejected by the predicate
Obstacles == {[at |-> {}, hole |-> FALSE]} \cup
             {[at |-> {p}, hole |-> h] : p \in GridCoords, h \in BOOLEAN}

\* the calls whose result is compared across neighbour orders: origins inside
\* the matrix, ranges from 1
InitOrder ==
    /\ \E x \in Obstacles, o \in GridCoords, n \in 1..MaxRange :
          /\ cells = initializeCellStates(MaskOf(IF x.hole THEN x.at ELSE {}))
          /\ query = [row |-> o[1], col |-> o[2], range |-> n,
                      includePredicate |->
                          [p \in GridCoords |-> x.hole \/ p \notin x.at],
                      done |-> FALSE, result |-> <<>>]
    /\ units = <<>>
    /\ selectedUnit = Null
    /\ currentTurn = "player"
    /\ heap = TwoUnits
    /\ aiTimers = 0
    /\ tapTimers = <<>>

OrderSpec == InitOrder /\ [][NextRange]_vars

RangeSpec == InitRange /\ [][NextRange]_vars

(* getCellsInRange followed iteration by iteration *)

\* a call about to be made; locals holds the loop's queue, visited and result,
\* dequeues counts queue.shift() calls and expanded lists, in order, the cells
\* whose six neighbours were enqueued
InitLoop ==
    /\ \E x \in Obstacles, o \in Origins, n \in -1..MaxRange :
          /\ cells = initializeCellStates(MaskOf(IF x.hole THEN x.at ELSE {}))
          /\ query = [row |-> o[1], col |-> o[2], range |-> n,
                      includePredicate |->
                          [p \in GridCoords |-> x.hole \/ p \notin x.at],
                      done |-> FALSE, result |-> <<>>,
                      pc |-> "call",
                      locals |-> [queue |-> <<>>, visited |-> {}, result |-> <<>>],
                      dequeues |-> 0, expanded |-> <<>>]
    /\ units = <<>>
    /\ selectedUnit = Null
    /\ currentTurn = "player"
    /\ heap = TwoUnits
    /\ aiTimers = 0
    /\ tapTimers = <<>>

\* the guard of getCellsInRange and the initialisation of the loop
LoopEnter ==
    /\ query.pc = "call"
    /\ query' = IF query.range < 0 \/ ~cellExists(cells, query.row, query.col)
                THEN [query EXCEPT !.pc = "done", !.done = TRUE, !.result = <<>>]
                ELSE [query EXCEPT !.pc = "loop",
                         !.locals = [queue |-> << <<query.row, query.col, 0>> >>,
                                     visited |-> {}, result |-> <<>>]]
    /\ UNCHANGED <<cells, units, selectedUnit, currentTurn, heap, aiTimers, tapTimers>>

\* one pass through the body of the while loop
LoopIterate ==
    /\ query.pc = "loop"
    /\ Len(query.locals.queue) > 0
    /\ LET L == rangeStep(cells, query.range, query.includePredicate, query.locals)
       IN  query' = [query EXCEPT
                        !.locals = L,
                        !.dequeues = @ + 1,
                        !.expanded = IF Len(L.queue) > Len(query.locals.queue) - 1
                                     THEN Append(@, <<Head(query.locals.queue)[1],
                                                      Head(query.locals.queue)[2]>>)
                                     ELSE @]
    /\ UNCHANGED <<cells, units, selectedUnit, currentTurn, heap, aiTimers, tapTimers>>

\* the queue is empty: the loop is left and result returned
LoopReturn ==
    /\ query.pc = "loop"
    /\ Len(query.locals.queue) = 0
    /\ query' = [query EXCEPT !.pc = "done", !.done = TRUE,
                                 !.result = query.locals.result]
    /\ UNCHANGED <<cells, units, selectedUnit, currentTurn, heap, aiTimers, tapTimers>>

NextLoop ==
    \/ LoopEnter
    \/ LoopIterate
    \/ LoopReturn

\* the call runs to completion: nothing preempts a running function
LoopSpec == InitLoop /\ [][NextLoop]_vars /\ WF_vars(NextLoop)

----------------------------------------------------------------------------
(* Vocabulary of the properties *)

Abs(n) == IF n < 0 THEN -n ELSE n
Max2(a, b) == IF a >= b THEN a ELSE b

\* hex distance between two cells of the offset layout in which odd rows are
\* shifted right: the number of neighbour steps between them on a full grid
HexDistance(p, q) ==
    LET px == p[2] - ((p[1] - (p[1] % 2)) \div 2)
        qx == q[2] - ((q[1] - (q[1] % 2)) \div 2)
        dx == px - qx
        dz == p[1] - q[1]
    IN  Max2(Max2(Abs(dx), Abs(dz)), Abs(dx + dz))

\* u stands on the grid: the cell at its position refers to it
OnBoard(u) ==
    /\ heap[u].position \in DOMAIN cells
    /\ cells[heap[u].position].unit = u

\* the cells selectUnit(u) would highlight
RangeSet(u) == {p \in DOMAIN cells : selectUnit(State, u).cells[p].isHighlighted}

Roster == {units[i] : i \in 1..Len(units)}

----------------------------------------------------------------------------
(* Occupancy *)

\* C1: every cell with a unit reference holds a unit whose position is that
\* cell, and no unit is referenced by two cells, after any sequence of addUnit,
\* removeUnit, placeUnit, moveUnit, selectUnit, endTurn and AI callbacks.
C1_CellUnitConsistent ==
    /\ \A p \in DOMAIN cells :
          cells[p].unit # Null => heap[cells[p].unit].position = p
    /\ \A p, q \in DOMAIN cells :
          (cells[p].unit # Null /\ cells[p].unit = cells[q].unit) => p = q

\* both units stand on cells after a move and a turn change
C1_Witness ==
    /\ OnBoard("u1") /\ OnBoard("u2")
    /\ heap["u1"].movementRemaining < heap["u1"].movement
    /\ currentTurn = "ai"
    /\ selectedUnit = "u2"

\* C2 (as claimed): for a unit on the grid, moveUnit(u, r, c) succeeds iff
\* (r,c) is visible, unoccupied and in the range set selectUnit(u) highlights.
C2_MoveIffInRange ==
    \A u \in DOMAIN heap : OnBoard(u) =>
        \A p \in CoordArgs :
            (moveUnit(State, u, p[1], p[2]).ret = "true")
            <=> (/\ p \in DOMAIN cells
                 /\ cells[p].isVisible
                 /\ cells[p].unit = Null
                 /\ p \in RangeSet(u))

\* C3 (as claimed): a successful moveUnit of a unit on the grid lowers
\* movementRemaining by the hex distance between its former cell and the target.
C3_CostIsDistance ==
    \A u \in DOMAIN heap : OnBoard(u) =>
        \A p \in CoordArgs :
            moveUnit(State, u, p[1], p[2]).ret = "true" =>
                moveUnit(State, u, p[1], p[2]).st.heap[u].movementRemaining
                    = heap[u].movementRemaining - HexDistance(heap[u].position, p)

----------------------------------------------------------------------------
(* Failure semantics *)

\* placeUnit, moveUnit, removeUnit and Unit.move leave the state as it was
\* whenever they return false
FailedCallsChangeNothing ==
    /\ \A u \in DOMAIN heap : \A p \in CoordArgs :
          placeUnit(State, u, p[1], p[2]).ret = "false"
              => placeUnit(State, u, p[1], p[2]).st = State
    /\ \A u \in UnitArgs : \A p \in CoordArgs :
          moveUnit(State, u, p[1], p[2]).ret = "false"
              => moveUnit(State, u, p[1], p[2]).st = State
    /\ \A u \in UnitArgs :
          removeUnit(State, u).ret = "false" => removeUnit(State, u).st = State
    /\ \A u \in DOMAIN heap : \A p \in CoordArgs : \A cost \in 0..3 :
          UnitMove(heap[u], p[1], p[2], cost).ret = "false"
              => UnitMove(heap[u], p[1], p[2], cost).unit = heap[u]

\* C4 (as claimed): every call that returns false, toggleCellState included,
\* leaves cells, roster, units, selectedUnit and currentTurn unchanged.
C4_FalseMeansUnchanged ==
    /\ FailedCallsChangeNothing
    /\ \A p \in ToggleArgs :
          toggleCellState(State, p[1], p[2]).ret = "false"
              => toggleCellState(State, p[1], p[2]).st = State

\* C4 (amended): placeUnit, moveUnit, removeUnit and Unit.move returning false
\* leave the state unchanged, and so does toggleCellState on a coordinate that
\* is out of bounds or invisible (where it returns false).
C4_FailureChangesNothing ==
    /\ FailedCallsChangeNothing
    /\ \A p \in ToggleArgs :
          ~(p \in DOMAIN cells /\ cells[p].isVisible)
              => /\ toggleCellState(State, p[1], p[2]).ret = "false"
                 /\ toggleCellState(State, p[1], p[2]).st = State

\* u1 is selected with a highlighted cell; its move onto u2's cell, its
\* placement on an invisible cell and a move of the spent u2 all fail
C4_Witness ==
    /\ OnBoard("u1") /\ OnBoard("u2")
    /\ selectedUnit = "u1"
    /\ \E p \in DOMAIN cells : cells[p].isHighlighted
    /\ moveUnit(State, "u1", heap["u2"].position[1], heap["u2"].position[2]).ret = "false"
    /\ placeUnit(State, "u1", 0, 1).ret = "false"
    /\ heap["u2"].movementRemaining = 0
    /\ \E p \in DOMAIN cells :
          /\ cells[p].isVisible /\ cells[p].unit = Null
          /\ moveUnit(State, "u2", p[1], p[2]).ret = "false"
    /\ toggleCellState(State, 0, 1).ret = "false"

----------------------------------------------------------------------------
(* Placement *)

\* C5: placeUnit(unit, r, c) succeeds iff (r,c) is in bounds, visible and
\* holds no unit; after a success no other cell refers to the unit any more,
\* the unit is in the roster, its position is (r,c) and cell (r,c) refers to it.
C5_PlaceUnit ==
    \A u \in DOMAIN heap : \A p \in CoordArgs :
        LET res == placeUnit(State, u, p[1], p[2]) IN
        /\ (res.ret = "true")
              <=> (p \in DOMAIN cells /\ cells[p].isVisible /\ cells[p].unit = Null)
        /\ res.ret = "true" =>
              /\ \A q \in DOMAIN cells \ {p} :
                    cells[q].unit = u => res.st.cells[q].unit = Null
              /\ u \in {res.st.units[i] : i \in 1..Len(res.st.units)}
              /\ res.st.heap[u].position = p
              /\ res.st.cells[p].unit = u

\* u1 stands on a cell without being in the roster; placing it on the free
\* cell succeeds, placing it on u2's cell fails
C5_Witness ==
    /\ OnBoard("u1") /\ OnBoard("u2")
    /\ "u1" \notin Roster
    /\ \E p \in DOMAIN cells :
          /\ p # heap["u1"].position
          /\ placeUnit(State, "u1", p[1], p[2]).ret = "true"
    /\ placeUnit(State, "u1", heap["u2"].position[1], heap["u2"].position[2]).ret = "false"

----------------------------------------------------------------------------
(* Turn cycle *)

\* what a call of endTurn can return in the current state: called directly,
\* or from the AI callback when a timer is pending
EndTurnResults ==
    {endTurn(State)} \cup (IF aiTimers > 0 THEN {runAITurn(State)} ELSE {})

\* C6: endTurn flips currentTurn once; afterwards every roster unit of the new
\* side has movementRemaining = movement and hasAttacked = FALSE, and the
\* movementRemaining, hasAttacked, position and health of every unit of another
\* owner are as before.
C6_EndTurn ==
    \A S1 \in EndTurnResults :
        /\ S1.currentTurn = (IF currentTurn = "player" THEN "ai" ELSE "player")
        /\ \A u \in DOMAIN heap :
              /\ (u \in Roster /\ heap[u].owner = S1.currentTurn) =>
                    /\ S1.heap[u].movementRemaining = heap[u].movement
                    /\ S1.heap[u].hasAttacked = FALSE
              /\ heap[u].owner # S1.currentTurn =>
                    /\ S1.heap[u].movementRemaining = heap[u].movementRemaining
                    /\ S1.heap[u].hasAttacked = heap[u].hasAttacked
                    /\ S1.heap[u].position = heap[u].position
                    /\ S1.heap[u].health = heap[u].health

\* on the player's turn all three units have moved and attacked; endTurn
\* refreshes the AI unit and leaves the player's and the neutral unit spent
C6_Witness ==
    /\ currentTurn = "player"
    /\ \A u \in DOMAIN heap :
          heap[u].hasAttacked /\ heap[u].movementRemaining < heap[u].movement
    /\ endTurn(State).heap["u2"].movementRemaining = heap["u2"].movement
    /\ endTurn(State).heap["u1"] = heap["u1"]

----------------------------------------------------------------------------
(* Input gating *)

\* C7 (as claimed): while currentTurn = ai the End Turn button does nothing.
C7_EndTurnInputGated ==
    currentTurn = "ai" => endTurnButton(State) = State

\* C8: a click or tap handled while currentTurn = ai changes nothing.
C8_ClickIgnoredOnAITurn ==
    currentTurn = "ai" =>
        /\ \A d, b \in BOOLEAN : \A p \in CoordArgs :
              handleClick(State, d, b, p) = State
        /\ Len(tapTimers) > 0 =>
              \A d, b \in BOOLEAN : handleClick(State, d, b, Head(tapTimers)) = State

\* a tap on the AI unit's cell waits to be handled during the AI's turn
C8_Witness ==
    /\ currentTurn = "ai"
    /\ Len(tapTimers) > 0
    /\ hitTest(cells, Head(tapTimers)) # NoCell
    /\ cells[Head(tapTimers)].unit = "u2"
    /\ \E p \in DOMAIN cells : cells[p].isActive

----------------------------------------------------------------------------
(* Liveness of the AI handoff *)

\* C10: when the timers are run, an AI turn always comes to an end: whenever
\* currentTurn = ai, currentTurn = player holds again later.
C10_AITurnEnds == (currentTurn = "ai") ~> (currentTurn = "player")

\* the AI's turn with its callback pending and a unit of the player selected
\* before (now deselected)
C10_Witness ==
    /\ currentTurn = "ai"
    /\ aiTimers > 0
    /\ selectedUnit = Null
    /\ heap["u1"].position # <<2, 0>>

----------------------------------------------------------------------------
(* Range query *)

ToSet(seq) == {seq[i] : i \in 1..Len(seq)}

\* a cell a path may pass: in bounds, visible and admitted by the predicate
Passable(cs, pred, p) == p \in DOMAIN cs /\ cs[p].isVisible /\ pred[p]

Adjacent(p, q) == \E i \in 1..6 : neighbors(p[1], p[2])[i] = q

RECURSIVE Within(_, _, _, _)
\* the cells joined to origin by a path of at most k adjacent steps over
\* passable cells, origin included
Within(cs, pred, origin, k) ==
    IF k < 0 THEN {}
    ELSE IF k = 0 THEN (IF Passable(cs, pred, origin) THEN {origin} ELSE {})
    ELSE LET W == Within(cs, pred, origin, k - 1)
         IN  W \cup {q \in DOMAIN cs :
                        Passable(cs, pred, q) /\ \E p \in W : Adjacent(p, q)}

\* C11: getCellsInRange returns exactly the cells joined to the origin by a
\* path of at most maxDistance neighbour steps all of whose cells, origin
\* included, are in bounds, visible and admitted by the predicate.
C11_RangeIsPathReachability ==
    query.done =>
        ToSet(query.result) =
            Within(cells, query.includePredicate, <<query.row, query.col>>, query.range)

\* a query whose answer needs a detour: a cell two steps away on the full grid
\* is left out at range 2 and a cell behind the rejected one is reached
C11_Witness ==
    /\ query.done
    /\ query.range = 2
    /\ <<query.row, query.col>> = <<0, 0>>
    /\ ~query.includePredicate[<<0, 1>>]
    /\ cells[<<0, 2>>].isVisible /\ query.includePredicate[<<0, 2>>]
    /\ <<0, 2>> \notin ToSet(query.result)
    /\ <<1, 1>> \in ToSet(query.result)

----------------------------------------------------------------------------
(* Selection and highlights *)

Highlighted(cs) == {p \in DOMAIN cs : cs[p].isHighlighted}

\* the predicate highlightMovementRange passes: the cell is empty or holds u
EmptyOrSelf(cs, u) == [p \in DOMAIN cs |-> cs[p].unit = u \/ cs[p].unit = Null]

\* C12: selectUnit(unit) sets selectedUnit to unit; the highlighted cells are
\* then exactly getCellsInRange(unit.position, unit.movementRemaining,
\* empty-or-self) for a unit with movementRemaining > 0, and none for null or
\* a unit with movementRemaining = 0.
C12_SelectUnit ==
    \A u \in UnitArgs :
        LET S1 == selectUnit(State, u) IN
        /\ S1.selectedUnit = u
        /\ Highlighted(S1.cells) =
              IF u # Null /\ heap[u].movementRemaining > 0
              THEN ToSet(getCellsInRange(cells, heap[u].position[1], heap[u].position[2],
                                         heap[u].movementRemaining, EmptyOrSelf(cells, u)))
              ELSE {}

\* u1 is selected with its range shown; selecting u2 shows another, non-empty
\* range and a cell of u1's range goes dark
C12_Witness ==
    /\ selectedUnit = "u1"
    /\ Highlighted(selectUnit(State, "u2").cells) # {}
    /\ Highlighted(cells) \ Highlighted(selectUnit(State, "u2").cells) # {}
    /\ heap["u2"].movementRemaining > 0

\* C13 (as claimed): removing the selected unit leaves none of its highlights,
\* and whenever selectedUnit is null no cell is highlighted.
C13_NoHighlightWithoutSelection ==
    /\ \A u \in UnitArgs :
          removeUnit(State, u).st.selectedUnit # selectedUnit =>
              Highlighted(removeUnit(State, u).st.cells) = {}
    /\ selectedUnit = Null => Highlighted(cells) = {}

\* C14: after a successful moveUnit(u, r, c) no cell that referred to u before
\* still does, (r,c) refers to u, u.position = (r,c), and the highlighted
\* cells are the range of u from (r,c) with its new movementRemaining, none
\* if that is 0.
C14_MoveUnitEffects ==
    \A u \in DOMAIN heap : \A p \in CoordArgs :
        LET S1 == moveUnit(State, u, p[1], p[2]).st IN
        moveUnit(State, u, p[1], p[2]).ret = "true" =>
            /\ \A q \in DOMAIN cells : cells[q].unit = u => S1.cells[q].unit = Null
            /\ S1.cells[p].unit = u
            /\ S1.heap[u].position = p
            /\ Highlighted(S1.cells) =
                  IF S1.heap[u].movementRemaining > 0
                  THEN Within(S1.cells, EmptyOrSelf(S1.cells, u), p,
                              S1.heap[u].movementRemaining)
                  ELSE {}

\* both units stand on the grid with highlights shown; u1 can move and keep
\* movement, u2 can move and use its last point
C14_Witness ==
    /\ OnBoard("u1") /\ OnBoard("u2")
    /\ Highlighted(cells) # {}
    /\ \E p \in CoordArgs :
          /\ moveUnit(State, "u1", p[1], p[2]).ret = "true"
          /\ moveUnit(State, "u1", p[1], p[2]).st.heap["u1"].movementRemaining > 0
    /\ \E p \in CoordArgs :
          /\ moveUnit(State, "u2", p[1], p[2]).ret = "true"
          /\ moveUnit(State, "u2", p[1], p[2]).st.heap["u2"].movementRemaining = 0

\* C15: moveUnit onto a cell that holds a unit returns false and changes
\* nothing: positions, movementRemaining and cell references stay.
C15_MoveOntoOccupied ==
    \A u \in DOMAIN heap : \A p \in DOMAIN cells :
        cells[p].unit # Null =>
            /\ moveUnit(State, u, p[1], p[2]).ret = "false"
            /\ moveUnit(State, u, p[1], p[2]).st = State

\* u1 with movement left stands next to the enemy u2 and is sent onto its cell
C15_Witness ==
    /\ OnBoard("u1") /\ OnBoard("u2")
    /\ heap["u1"].movementRemaining > 0
    /\ Adjacent(heap["u1"].position, heap["u2"].position)
    /\ moveUnit(State, "u1", heap["u2"].position[1], heap["u2"].position[2]).ret = "false"

\* C16: endTurn leaves selectedUnit null and no cell highlighted, whichever
\* side's turn ends, called from the End Turn button or from the AI callback.
C16_EndTurnClearsSelection ==
    \A S1 \in EndTurnResults \cup {endTurnButton(State)} :
        S1.selectedUnit = Null /\ Highlighted(S1.cells) = {}

\* the AI callback is about to end the AI's turn while a unit is selected and
\* its range is shown
C16_Witness ==
    /\ currentTurn = "ai"
    /\ aiTimers > 0
    /\ selectedUnit # Null
    /\ Highlighted(cells) # {}

\* C17: with range 0, getCellsInRange returns the single cell (r,c) when it is
\* in bounds, visible and passes the predicate, and nothing otherwise.
C17_RangeZero ==
    (query.done /\ query.range = 0) =>
        query.result =
            IF Passable(cells, query.includePredicate, <<query.row, query.col>>)
            THEN << <<query.row, query.col>> >>
            ELSE <<>>

\* a range-0 query from a passable cell that has a passable neighbour
C17_Witness ==
    /\ query.done
    /\ query.range = 0
    /\ query.result = << <<query.row, query.col>> >>
    /\ \E q \in DOMAIN cells :
          /\ Adjacent(<<query.row, query.col>>, q)
          /\ Passable(cells, query.includePredicate, q)

\* C18: getCellsInRange returns nothing when maxDistance < 0 or the origin is
\* out of bounds or invisible, whatever the predicate.
C18_EmptyOnBadArguments ==
    (/\ query.done
     /\ \/ query.range < 0
        \/ <<query.row, query.col>> \notin DOMAIN cells
        \/ ~cells[<<query.row, query.col>>].isVisible)
    => query.result = <<>>

\* a query with a negative range from a passable cell, under a predicate that
\* rejects some cell
C18_Witness ==
    /\ query.done
    /\ query.range < 0
    /\ Passable(cells, query.includePredicate, <<query.row, query.col>>)
    /\ \E q \in DOMAIN cells : ~query.includePredicate[q]
    /\ query.result = <<>>

\* C19: the result of getCellsInRange holds no cell twice, and each of its
\* cells is in bounds, visible and passes the predicate.
C19_ResultDistinctAndPassable ==
    query.done =>
        /\ \A i, j \in 1..Len(query.result) :
              query.result[i] = query.result[j] => i = j
        /\ \A i \in 1..Len(query.result) :
              Passable(cells, query.includePredicate, query.result[i])

\* a query that reaches cells along several paths, on a grid with an
\* invisible cell and a rejected one
C19_Witness ==
    /\ query.done
    /\ query.range >= 2
    /\ Len(query.result) >= 6
    /\ \E q \in DOMAIN cells : ~cells[q].isVisible
    /\ \E q \in DOMAIN cells : cells[q].isVisible /\ ~query.includePredicate[q]

\* the orders in which the six neighbour offsets can be enqueued
Orders == Permutations(1..6)

RECURSIVE rangeLoopInOrder(_, _, _, _, _, _, _)
\* the loop of getCellsInRange with the neighbours enqueued in the given order
rangeLoopInOrder(cs, range, pred, queue, visited, result, order) ==
    IF Len(queue) = 0 THEN result
    ELSE LET r    == Head(queue)[1]
             c    == Head(queue)[2]
             dist == Head(queue)[3]
             rest == Tail(queue)
         IN  IF ~Passable(cs, pred, <<r, c>>) \/ <<r, c>> \in visited
             THEN rangeLoopInOrder(cs, range, pred, rest, visited, result, order)
             ELSE rangeLoopInOrder(cs, range, pred,
                      IF dist >= range THEN rest
                      ELSE rest \o [i \in 1..6 |->
                              <<neighbors(r, c)[order[i]][1],
                                neighbors(r, c)[order[i]][2], dist + 1>>],
                      visited \cup {<<r, c>>}, Append(result, <<r, c>>), order)

\* C20: the set getCellsInRange returns is the set found with the neighbours
\* enqueued in any other order; on the fully visible 3x3 grid, origin (1,1),
\* range 1 and a predicate that accepts every cell it is the origin and its
\* six odd-row neighbours.
C20_NeighbourOrderIrrelevant ==
    query.done =>
        /\ \A order \in Orders :
              ToSet(rangeLoopInOrder(cells, query.range, query.includePredicate,
                                     << <<query.row, query.col, 0>> >>, {}, <<>>, order))
                  = ToSet(query.result)
        /\ (/\ \A p \in DOMAIN cells : cells[p].isVisible /\ query.includePredicate[p]
            /\ <<query.row, query.col>> = <<1, 1>>
            /\ query.range = 1)
           => ToSet(query.result) =
                 {<<1, 1>>, <<0, 1>>, <<0, 2>>, <<1, 2>>, <<2, 2>>, <<2, 1>>, <<1, 0>>}

\* a query whose result array comes out in another sequence when the
\* neighbours are enqueued in another order
C20_Witness ==
    /\ query.done
    /\ query.range >= 2
    /\ \E q \in DOMAIN cells : ~query.includePredicate[q]
    /\ \E order \in Orders :
          rangeLoopInOrder(cells, query.range, query.includePredicate,
                           << <<query.row, query.col, 0>> >>, {}, <<>>, order)
              # query.result

----------------------------------------------------------------------------
(* The shipped board *)

\* C21: on the 6x6 mask with (1,1), (2,3) and (5,3) invisible, selectUnit of
\* the single unit highlights no invisible cell, no coordinate outside the
\* 6x6 bounds and no cell farther than movementRemaining (2 at (5,0)) in hex
\* distance from the unit.
C21_DefaultBoardRange ==
    LET u   == "u1"
        pos == heap[u].position
        R   == Highlighted(selectUnit(State, u).cells)
                 \cup ToSet(getCellsInRange(cells, pos[1], pos[2],
                                            heap[u].movementRemaining,
                                            EmptyOrSelf(cells, u)))
    IN  \A p \in R :
            /\ p \notin {<<1, 1>>, <<2, 3>>, <<5, 3>>}
            /\ p[1] \in 0..5 /\ p[2] \in 0..5
            /\ HexDistance(p, pos) <= heap[u].movementRemaining

\* the unit at (5,0) with movement 2 is selected and its range is shown
C21_Witness ==
    /\ heap["u1"].position = <<5, 0>>
    /\ heap["u1"].movementRemaining = 2
    /\ selectedUnit = "u1"
    /\ Highlighted(cells) = RangeSet("u1")
    /\ Cardinality(Highlighted(cells)) >= 6
    /\ \E p \in Highlighted(cells) : HexDistance(p, <<5, 0>>) = 2

----------------------------------------------------------------------------
(* Roster *)

\* C22 (as claimed): addUnit of a unit already in the roster leaves the roster
\* as it is, and no unit appears in the roster more than once.
C22_AddUnitIdempotent ==
    /\ \A u \in Roster : addUnit(State, u).st.units = units
    /\ \A i, j \in 1..Len(units) : units[i] = units[j] => i = j

\* C23 (as claimed): removeUnit of a roster unit returns true and leaves it
\* absent from the roster, no cell referring to it and selectedUnit null if it
\* was selected, unchanged otherwise; removeUnit of any other unit returns
\* false and changes nothing.
C23_RemoveUnit ==
    \A u \in UnitArgs :
        LET R == removeUnit(State, u) IN
        IF u \in Roster
        THEN /\ R.ret = "true"
             /\ ~includes(R.st.units, u)
             /\ \A q \in DOMAIN cells : cells[q].unit = u => R.st.cells[q].unit = Null
             /\ R.st.selectedUnit = IF selectedUnit = u THEN Null ELSE selectedUnit
        ELSE R.ret = "false" /\ R.st = State

----------------------------------------------------------------------------
(* A Unit object driven through its own methods *)

\* the four unit types and a type createUnit does not know
UnitTypes == {"soldier", "archer", "knight", "mage", "scout"}

InitUnit ==
    \E t \in UnitTypes :
        Start(Loaded([u \in {"u1"} |-> createUnit(t, "player")]))

SetUnit(u, unit) ==
    /\ Apply([State EXCEPT !.heap[u] = unit])
    /\ UNCHANGED <<tapTimers, query>>

Move(u, row, col, cost) == SetUnit(u, UnitMove(heap[u], row, col, cost).unit)

TakeDamage(u, amount) == SetUnit(u, takeDamage(heap[u], amount).unit)

Heal(u, amount) == SetUnit(u, heal(heap[u], amount))

ResetTurn(u) == SetUnit(u, resetTurn(heap[u]))

NextUnit ==
    \/ \E u \in DOMAIN heap : \E row, col \in 0..1 : \E cost \in 0..MaxCost :
          Move(u, row, col, cost)
    \/ \E u \in DOMAIN heap : \E amount \in 0..MaxAmount : TakeDamage(u, amount)
    \/ \E u \in DOMAIN heap : \E amount \in 0..MaxAmount : Heal(u, amount)
    \/ \E u \in DOMAIN heap : PerformAttack(u)
    \/ \E u \in DOMAIN heap : ResetTurn(u)

UnitSpec == InitUnit /\ [][NextUnit]_vars

----------------------------------------------------------------------------
(* Cells *)

\* C24 (as claimed): outside the grid bounds getCell finds nothing and
\* cellExists is false; inside them cellExists is true exactly for a visible
\* cell and getCell returns the cell stored at (r,c).
C24_GetCellInBounds ==
    \A r, c \in -1..3 :
        IF <<r, c>> \notin DOMAIN cells
        THEN getCell(cells, r, c) = NoCell /\ ~cellExists(cells, r, c)
        ELSE /\ cellExists(cells, r, c) <=> cells[<<r, c>>].isVisible
             /\ getCell(cells, r, c) = <<r, c>>

\* C24 (amended): outside the grid bounds getCell finds nothing and cellExists
\* is false; inside them cellExists is true exactly for a visible cell, and
\* getCell returns the cell stored at (r,c) when it is visible and finds
\* nothing when it is invisible.
C24_CellLookup ==
    \A r, c \in -1..3 :
        IF <<r, c>> \notin DOMAIN cells
        THEN getCell(cells, r, c) = NoCell /\ ~cellExists(cells, r, c)
        ELSE /\ cellExists(cells, r, c) <=> cells[<<r, c>>].isVisible
             /\ getCell(cells, r, c) =
                  (IF cells[<<r, c>>].isVisible THEN <<r, c>> ELSE NoCell)

\* a range query made from an invisible cell inside the bounds
C24_Witness ==
    /\ query.done
    /\ <<query.row, query.col>> \in DOMAIN cells
    /\ ~cells[<<query.row, query.col>>].isVisible
    /\ query.includePredicate[<<query.row, query.col>>]
    /\ getCell(cells, query.row, query.col) = NoCell
    /\ getCell(cells, 0, 3) = NoCell

\* the visibility flags and the matrix dimensions initializeCellStates sets up
Layout(cs) == [p \in DOMAIN cs |-> cs[p].isVisible]

\* C25: the visibility flags and the numbers of rows and columns are those
\* of the initialized grid in every state, and placeUnit, moveUnit,
\* removeUnit, addUnit, selectUnit, toggleCellState, clearHighlightedCells and
\* endTurn each leave them as they are.
C25_LayoutFrame ==
    /\ DOMAIN cells = {<<r, c>> : r \in 0..(Len(gridConfig) - 1),
                                  c \in 0..(Len(gridConfig[1]) - 1)}
    /\ \A p \in DOMAIN cells : cells[p].isVisible <=> gridConfig[p[1] + 1][p[2] + 1] = 1
    /\ \A u \in UnitArgs : \A p \in CoordArgs :
          /\ u # Null => Layout(placeUnit(State, u, p[1], p[2]).st.cells) = Layout(cells)
          /\ Layout(moveUnit(State, u, p[1], p[2]).st.cells) = Layout(cells)
          /\ Layout(removeUnit(State, u).st.cells) = Layout(cells)
          /\ Layout(addUnit(State, u).st.cells) = Layout(cells)
          /\ Layout(selectUnit(State, u).cells) = Layout(cells)
          /\ Layout(toggleCellState(State, p[1], p[2]).st.cells) = Layout(cells)
    /\ Layout(clearHighlightedCells(State).cells) = Layout(cells)
    /\ Layout(endTurn(State).cells) = Layout(cells)

\* both units placed, one selected with its range shown, a cell toggled on,
\* and the AI's turn
C25_Witness ==
    /\ OnBoard("u1") /\ OnBoard("u2")
    /\ selectedUnit # Null
    /\ Highlighted(cells) # {}
    /\ cells[<<0, 0>>].isActive
    /\ currentTurn = "ai"
    /\ \E p \in DOMAIN cells : ~cells[p].isVisible

\* C26: toggleCellState on a visible cell inside the bounds flips its isActive,
\* returns the new value and changes nothing else, so a second toggle restores
\* the state; on an invisible or out-of-bounds coordinate it returns false and
\* changes nothing.
C26_Toggle ==
    \A p \in ToggleArgs \cup DOMAIN cells :
        LET R == toggleCellState(State, p[1], p[2]) IN
        IF p \in DOMAIN cells /\ cells[p].isVisible
        THEN /\ R.st = [State EXCEPT !.cells[p].isActive = ~cells[p].isActive]
             /\ R.ret = Bool(~cells[p].isActive)
             /\ toggleCellState(R.st, p[1], p[2]).st = State
        ELSE R.st = State /\ R.ret = "false"

\* an active cell that holds the selected unit and is highlighted
C26_Witness ==
    /\ cells[<<0, 0>>].isActive
    /\ cells[<<0, 0>>].isHighlighted
    /\ cells[<<0, 0>>].unit # Null
    /\ selectedUnit = cells[<<0, 0>>].unit
    /\ toggleCellState(State, 0, 0).ret = "false"

----------------------------------------------------------------------------
(* Unit methods *)

\* C27: Unit.move(row, col, cost) returns true iff cost <= movementRemaining;
\* then position is (row,col) and movementRemaining is smaller by exactly
\* cost, nothing else of the unit changed; otherwise it returns false and the
\* unit is unchanged.
C27_UnitMove ==
    \A u \in DOMAIN heap : \A row, col \in 0..1 : \A cost \in 0..MaxCost :
        LET R == UnitMove(heap[u], row, col, cost) IN
        /\ R.ret = "true" <=> cost <= heap[u].movementRemaining
        /\ R.ret \in {"true", "false"}
        /\ R.ret = "true" =>
              /\ R.unit.position = <<row, col>>
              /\ R.unit.movementRemaining + cost = heap[u].movementRemaining
              /\ R.unit.movementRemaining >= 0
              /\ [R.unit EXCEPT !.position = heap[u].position,
                                !.movementRemaining = heap[u].movementRemaining] = heap[u]
        /\ R.ret = "false" => R.unit = heap[u]

\* a moved unit with one movement point left: a move of cost 1 succeeds and
\* a move of cost 2 fails
C27_Witness ==
    /\ heap["u1"].position = <<1, 0>>
    /\ heap["u1"].movementRemaining = 1
    /\ heap["u1"].movement > 1
    /\ UnitMove(heap["u1"], 0, 0, 1).ret = "true"
    /\ UnitMove(heap["u1"], 0, 0, 2).ret = "false"

\* C28: takeDamage(amount) sets health to max(0, health - amount) and returns
\* whether the new health is positive, heal(amount) sets health to
\* min(maxHealth, health + amount), neither changes anything else, and for
\* non-negative amounts 0 <= health <= maxHealth in every state.
C28_HealthBounds ==
    \A u \in DOMAIN heap :
        /\ 0 <= heap[u].health /\ heap[u].health <= heap[u].maxHealth
        /\ \A amount \in 0..MaxAmount :
              LET T == takeDamage(heap[u], amount)
                  H == heal(heap[u], amount)
              IN /\ T.unit.health = (IF heap[u].health > amount
                                        THEN heap[u].health - amount ELSE 0)
                 /\ T.ret = Bool(heap[u].health > amount)
                 /\ [T.unit EXCEPT !.health = heap[u].health] = heap[u]
                 /\ H.health = (IF heap[u].health + amount < heap[u].maxHealth
                                   THEN heap[u].health + amount ELSE heap[u].maxHealth)
                 /\ [H EXCEPT !.health = heap[u].health] = heap[u]
                 /\ 0 <= T.unit.health /\ T.unit.health <= heap[u].maxHealth
                 /\ 0 <= H.health /\ H.health <= heap[u].maxHealth

\* a damaged unit that the largest damage would take below zero and the
\* largest heal above maxHealth
C28_Witness ==
    /\ 0 < heap["u1"].health
    /\ heap["u1"].health < heap["u1"].maxHealth
    /\ heap["u1"].health - MaxAmount < 0
    /\ heap["u1"].health + MaxAmount > heap["u1"].maxHealth
    /\ takeDamage(heap["u1"], MaxAmount).ret = "false"

\* C29: performAttack returns the attack value and sets hasAttacked exactly
\* when hasAttacked was false, and returns 0 changing nothing otherwise; a
\* second performAttack right after a successful one returns 0, and
\* hasAttacked goes back to false only by resetTurn, so a unit attacks
\* successfully at most once between two resetTurn calls.
C29_OneAttackPerTurn ==
    [][\A u \in DOMAIN heap :
         LET R == performAttack(heap[u]) IN
         /\ IF ~heap[u].hasAttacked
            THEN /\ R.ret = heap[u].attack
                 /\ R.unit = [heap[u] EXCEPT !.hasAttacked = TRUE]
                 /\ performAttack(R.unit).ret = 0
                 /\ performAttack(R.unit).unit = R.unit
            ELSE R.ret = 0 /\ R.unit = heap[u]
         /\ (heap[u].hasAttacked /\ ~heap'[u].hasAttacked) => heap'[u] = resetTurn(heap[u])
         /\ (~heap[u].hasAttacked /\ heap'[u].hasAttacked) => heap'[u] = R.unit]_vars

\* a unit that has attacked this turn after using up its movement
C29_Witness ==
    /\ heap["u1"].hasAttacked
    /\ heap["u1"].attack > 0
    /\ heap["u1"].movementRemaining = 0
    /\ performAttack(heap["u1"]).ret = 0

----------------------------------------------------------------------------
(* Obstacles in a range query *)

\* C30: getCellsInRange neither returns nor spreads from a cell that is out
\* of bounds, invisible or rejected by the predicate: every returned cell
\* but the first (the origin) is a neighbour of a cell returned before it, and
\* a cell that no path of at most maxDistance steps over admissible cells
\* joins to the origin is not returned, also when its plain hex distance
\* from the origin is within maxDistance.
C30_NoSpreadThroughObstacles ==
    query.done =>
        LET origin == <<query.row, query.col>>
            inadmissible == {q \in GridCoords \cup {origin} :
                                ~Passable(cells, query.includePredicate, q)}
        IN /\ ToSet(query.result) \cap inadmissible = {}
           /\ query.result # <<>> => query.result[1] = origin
           /\ \A i \in 2..Len(query.result) :
                 \E j \in 1..(i - 1) : Adjacent(query.result[j], query.result[i])
           /\ \A q \in GridCoords :
                 (/\ HexDistance(q, origin) <= query.range
                  /\ q \notin Within(cells, query.includePredicate, origin, query.range))
                 => q \notin ToSet(query.result)

\* an invisible cell next to the origin: the admissible cell behind it is two
\* hexes away, but three steps away around the hole, and a range-2 query
\* leaves it out
C30_Witness ==
    /\ query.done
    /\ query.range = 2
    /\ <<query.row, query.col>> = <<0, 0>>
    /\ ~cells[<<0, 1>>].isVisible
    /\ Passable(cells, query.includePredicate, <<0, 2>>)
    /\ HexDistance(<<0, 2>>, <<0, 0>>) = 2
    /\ <<0, 2>> \notin ToSet(query.result)
    /\ <<0, 2>> \in Within(cells, query.includePredicate, <<0, 0>>, 3)
    /\ Len(query.result) >= 3

----------------------------------------------------------------------------
(* Pending AI-turn callbacks *)

\* C31 (as claimed): the number of pending AI-turn callbacks is 1 while
\* currentTurn = ai and 0 while currentTurn = player, so no callback can fire
\* and end the turn while it is the player's.
C31_PendingCallbacks ==
    /\ aiTimers = (IF currentTurn = "ai" THEN 1 ELSE 0)
    /\ ENABLED RunAITurn => currentTurn = "ai"

----------------------------------------------------------------------------
(* Roster and cell references *)

\* C32 (as claimed): in every state reached by addUnit, removeUnit, placeUnit
\* and moveUnit, each roster unit with a position other than (-1,-1) is the
\* unit its cell refers to, and no two roster units share a placed position.
C32_RosterUnitOnItsCell ==
    /\ \A u \in Roster :
          heap[u].position # NotPlaced =>
              /\ heap[u].position \in DOMAIN cells
              /\ cells[heap[u].position].unit = u
    /\ \A u, v \in Roster :
          (heap[u].position # NotPlaced /\ heap[u].position = heap[v].position) => u = v

\* C33 (as claimed): each unit a cell refers to is a member of the roster.
C33_CellUnitInRoster ==
    \A p \in DOMAIN cells : cells[p].unit # Null => cells[p].unit \in Roster

----------------------------------------------------------------------------
(* What input can move *)

\* C34: on every step of the input layer (clicks, taps, the End Turn button,
\* the timers) a unit whose position changes is owned by the player, is the
\* selected unit, moves to a highlighted cell and does so while currentTurn =
\* player; and the selected unit is never an AI-owned or neutral one.
C34_InputMovesOnlyPlayerUnits ==
    [][/\ \A u \in DOMAIN heap :
            heap'[u].position # heap[u].position =>
                /\ heap[u].owner = "player"
                /\ currentTurn = "player"
                /\ selectedUnit = u
                /\ heap'[u].position \in DOMAIN cells
                /\ cells[heap'[u].position].isHighlighted
       /\ selectedUnit' # Null => heap'[selectedUnit'].owner = "player"]_vars

\* the player's unit was selected and moved by clicks next to a neutral unit,
\* and can still move
C34_Witness ==
    /\ heap["u2"].owner = "neutral" /\ OnBoard("u2")
    /\ heap["u1"].position = <<1, 0>> /\ OnBoard("u1")
    /\ heap["u1"].movementRemaining = 1
    /\ selectedUnit = "u1"
    /\ currentTurn = "player"
    /\ cells[<<2, 0>>].isHighlighted

----------------------------------------------------------------------------
(* Movement budget over the turn cycle *)

\* C35: 0 <= movementRemaining <= movement for every unit in every state
\* reached by moveUnit and endTurn; a successful moveUnit needs a remaining
\* point and uses up exactly one, and movementRemaining rises only by the
\* reset of a turn change, so a unit completes at most `movement` moves
\* between two resets.
C35_MovementBudget ==
    [][\A u \in DOMAIN heap :
         /\ 0 <= heap[u].movementRemaining
         /\ heap[u].movementRemaining <= heap[u].movement
         /\ 0 <= heap'[u].movementRemaining
         /\ heap'[u].movementRemaining <= heap'[u].movement
         /\ \A p \in CoordArgs :
               LET R == moveUnit(State, u, p[1], p[2]) IN
               R.ret = "true" =>
                   /\ heap[u].movementRemaining >= 1
                   /\ R.st.heap[u].movementRemaining = heap[u].movementRemaining - 1
         /\ heap'[u].position # heap[u].position =>
               heap'[u].movementRemaining = heap[u].movementRemaining - 1
         /\ heap'[u].movementRemaining > heap[u].movementRemaining =>
               /\ currentTurn' # currentTurn
               /\ heap'[u] = resetTurn(heap[u])]_vars

\* the soldier has made its two moves of the turn; a third, to a free visible
\* cell, is refused
C35_Witness ==
    /\ heap["u1"].movement = 2
    /\ heap["u1"].movementRemaining = 0
    /\ OnBoard("u1")
    /\ currentTurn = "player"
    /\ \E p \in DOMAIN cells :
          /\ cells[p].isVisible /\ cells[p].unit = Null
          /\ moveUnit(State, "u1", p[1], p[2]).ret = "false"

----------------------------------------------------------------------------
(* Termination of the range query *)

\* C36: getCellsInRange terminates: no cell has its neighbours enqueued twice,
\* the number of dequeues stays within one for the origin plus six for each
\* cell of the grid, and every call eventually returns, with the result the
\* loop has built.
C36_RangeQueryTerminates ==
    /\ [](/\ \A i, j \in 1..Len(query.expanded) :
               query.expanded[i] = query.expanded[j] => i = j
          /\ query.dequeues <= 1 + 6 * Cardinality(DOMAIN cells)
          /\ query.done =>
               query.result = getCellsInRange(cells, query.row, query.col,
                                              query.range, query.includePredicate))
    /\ <>(query.done /\ query.pc = "done")

\* a finished query that expanded seven cells and dequeued far more entries
\* than the grid has cells
C36_Witness ==
    /\ query.done
    /\ query.pc = "done"
    /\ query.locals.queue = <<>>
    /\ Len(query.expanded) >= 7
    /\ query.dequeues > 3 * Cardinality(DOMAIN cells)
    /\ Len(query.result) > Len(query.expanded)

----------------------------------------------------------------------------
(* Symmetry of the neighbour tables *)

\* C37: the neighbour tables give a symmetric adjacency: B is among the six
\* neighbours of A iff A is among those of B (A the queried origin, inside or
\* outside the matrix, B any coordinate around it); and on a fully visible
\* grid with a predicate that admits every cell, B is in getCellsInRange(A, d)
\* iff A is in getCellsInRange(B, d).
C37_SymmetricAdjacency ==
    LET A == <<query.row, query.col>> IN
    /\ \A r \in (A[1] - 2)..(A[1] + 2) : \A c \in (A[2] - 2)..(A[2] + 2) :
          Adjacent(A, <<r, c>>) <=> Adjacent(<<r, c>>, A)
    /\ \A i \in 1..6 : Adjacent(neighbors(A[1], A[2])[i], A)
    /\ (/\ query.done
        /\ \A q \in DOMAIN cells : cells[q].isVisible /\ query.includePredicate[q])
       => \A B \in GridCoords :
             B \in ToSet(query.result)
             <=> A \in ToSet(getCellsInRange(cells, B[1], B[2], query.range,
                                              query.includePredicate))

\* a range-2 query from a corner of the full grid: a cell of an odd row is
\* in the result, the opposite corner is not
C37_Witness ==
    /\ query.done
    /\ \A q \in DOMAIN cells : cells[q].isVisible /\ query.includePredicate[q]
    /\ <<query.row, query.col>> = <<0, 0>>
    /\ query.range = 2
    /\ <<1, 1>> \in ToSet(query.result)
    /\ <<2, 2>> \notin ToSet(query.result)
    /\ Adjacent(<<1, 0>>, <<0, 0>>) /\ Adjacent(<<0, 0>>, <<1, 0>>)

----------------------------------------------------------------------------
(* Neutral units and the turn cycle *)

\* C38: endTurn, called directly or by the AI callback, leaves every field of
\* a neutral unit as it is, and on no step of the turn cycle does a neutral
\* unit's movementRemaining rise or its hasAttacked fall back to false: spent
\* movement is never restored.
C38_NeutralNeverReset ==
    [][\A u \in DOMAIN heap :
         heap[u].owner = "neutral" =>
             /\ \A S1 \in EndTurnResults : S1.heap[u] = heap[u]
             /\ heap'[u].movementRemaining <= heap[u].movementRemaining
             /\ heap[u].hasAttacked => heap'[u].hasAttacked
             /\ currentTurn' # currentTurn => heap'[u] = heap[u]]_vars

\* the AI's turn is about to end; the neutral roster unit has moved onto the
\* grid and attacked: endTurn refreshes the player's unit, not the neutral one
C38_Witness ==
    /\ heap["u3"].owner = "neutral"
    /\ includes(units, "u3")
    /\ OnBoard("u3")
    /\ heap["u3"].movementRemaining < heap["u3"].movement
    /\ heap["u3"].hasAttacked
    /\ currentTurn = "ai" /\ aiTimers = 1
    /\ heap["u1"].movementRemaining = 0
    /\ runAITurn(State).heap["u1"].movementRemaining = heap["u1"].movement
    /\ runAITurn(State).heap["u3"] = heap["u3"]

====
